---- MODULE Spec2Model ----
(***************************************************************************)
(* Model of scripts/xrp_simulator.py: XRPConstructionSimulator.            *)
(*                                                                         *)
(* Spec     one run of main(): simulate_construction_payment_flow.         *)
(* ApiSpec  a client calling the public methods create_escrow and          *)
(*          send_payment with arguments drawn from small sets.             *)
(*                                                                         *)
(* The ledger (XRPL testnet) is the environment.  Balances are kept in     *)
(* drops; network fees are left out of the balances (the claims about      *)
(* balances are stated "ignoring network fees").                           *)
(***************************************************************************)
EXTENDS Integers, Sequences, FiniteSets, TLC

(* ------------------------------------------------------------------ *)
(* Values of the program                                               *)
(* ------------------------------------------------------------------ *)

\* Python's None: the value of a bare `return` and of `return None`.
None == "None"

\* A local variable that has not been assigned yet.
Unset == "Unset"

\* simulation_wallets.json before open(..., 'w') has written it: it holds
\* no entry.
NoFile == <<>>

\* The three wallets of the flow, by their key in wallet_data.
Roles == {"owner", "gc", "subcontractor"}

\* Wallet.create(): a fresh key pair; the address and the seed of a wallet
\* are distinct opaque strings.
classic_address(w) == "addr:" \o w
seed(w) == "seed:" \o w

RIPPLE_EPOCH == 946684800

DROPS_PER_XRP == 1000000

\* The amounts and the delay of the scripted flow.
escrow_amount == 50
days_until_release == 7
gc_payment == 25
sub_payment == 10

\* A text (Python str) is the sequence of its code points; <<>> is "", the
\* default memo (no memo).
\* "Project #2025-001: Foundation Complete - $100,000 USD"
EscrowMemo ==
  <<80, 114, 111, 106, 101, 99, 116, 32, 35, 50, 48, 50, 53, 45, 48, 48,
  49, 58, 32, 70, 111, 117, 110, 100, 97, 116, 105, 111, 110, 32, 67, 111,
  109, 112, 108, 101, 116, 101, 32, 45, 32, 36, 49, 48, 48, 44, 48, 48,
  48, 32, 85, 83, 68>>

\* "Project #2025-001: Progress Payment #1"
GcMemo ==
  <<80, 114, 111, 106, 101, 99, 116, 32, 35, 50, 48, 50, 53, 45, 48, 48,
  49, 58, 32, 80, 114, 111, 103, 114, 101, 115, 115, 32, 80, 97, 121, 109,
  101, 110, 116, 32, 35, 49>>

\* "Project #2025-001: Concrete Work - Division 03"
SubMemo ==
  <<80, 114, 111, 106, 101, 99, 116, 32, 35, 50, 48, 50, 53, 45, 48, 48,
  49, 58, 32, 67, 111, 110, 99, 114, 101, 116, 101, 32, 87, 111, 114, 107,
  32, 45, 32, 68, 105, 118, 105, 115, 105, 111, 110, 32, 48, 51>>

\* "construction-payment"
PaymentMemoType ==
  <<99, 111, 110, 115, 116, 114, 117, 99, 116, 105, 111, 110, 45, 112, 97,
  121, 109, 101, 110, 116>>

\* "construction-escrow"
EscrowMemoType ==
  <<99, 111, 110, 115, 116, 114, 117, 99, 116, 105, 111, 110, 45, 101,
  115, 99, 114, 111, 119>>

(* ------------------------------------------------------------------ *)
(* Bounds of the model                                                 *)
(* ------------------------------------------------------------------ *)

\* Wall-clock seconds (time.time()) at which a run may start.
StartTimes == {1762000000, 1762000003}

\* XRP the testnet faucet credits to a funded account.
FaucetAmounts == {100, 1000}

\* submit_and_wait blocks for 1..MaxWait seconds before it returns.
MaxWait == 2

\* Number of method calls a client makes in ApiSpec.
MaxCalls == 1

\* Memo texts a client passes in MemoSpec: up to MaxMemoLen code points
\* with UTF-8 encodings of one ("A"), two (e acute) and three (euro sign)
\* bytes.
MemoAlphabet == {65, 233, 8364}

MaxMemoLen == 2

MemoTexts == UNION {[1..k -> MemoAlphabet] : k \in 0..MaxMemoLen}

\* Arguments a client passes in ApiSpec.
ApiAmounts == {-1, 0, 25}
ApiDays == {-1, 0, 7}

(* ------------------------------------------------------------------ *)
(* State                                                               *)
(* ------------------------------------------------------------------ *)

VARIABLES
  pc,                \* position of the flow ("api" in ApiSpec)
  clock,             \* time.time(), in whole seconds
  wallets,           \* roles whose wallet has been created
  balances,          \* ledger: validated balance of each account, in drops
  escrows,           \* ledger: escrow objects holding locked funds
  funded,            \* drops the faucet has credited to each account
  txs,               \* every transaction handed to submit_and_wait, in order
  console,           \* lines printed, each with the source line printing it
  escrow_hash,       \* locals of simulate_construction_payment_flow
  gc_payment_hash,
  sub_payment_hash,
  final_balances,    \* the balances read at lines 235-237, in XRP
  flow_return,       \* what simulate_construction_payment_flow returned
  wallet_file,       \* content of simulation_wallets.json
  api_call,          \* ApiSpec: the call in progress
  api_result,        \* ApiSpec: what the last call returned or raised
  api_calls,         \* ApiSpec: calls made so far
  other_pc           \* ConcSpec: position of a second, concurrent run

vars == <<pc, clock, wallets, balances, escrows, funded, txs, console,
          escrow_hash, gc_payment_hash, sub_payment_hash, final_balances,
          flow_return, wallet_file, api_call, api_result, api_calls,
          other_pc>>

flowVars == <<escrow_hash, gc_payment_hash, sub_payment_hash, final_balances,
              flow_return, wallet_file>>

apiVars == <<api_call, api_result, api_calls>>

(* ------------------------------------------------------------------ *)
(* Library functions the script calls                                  *)
(* ------------------------------------------------------------------ *)

\* xrpl.utils.xrp_to_drops raises XRPRangeError for a negative amount;
\* zero is converted like any other amount.
XrpRangeOk(amount_xrp) == amount_xrp >= 0

xrp_to_drops(amount_xrp) == amount_xrp * DROPS_PER_XRP

drops_to_xrp(drops) == drops \div DROPS_PER_XRP

\* response.result['hash'] of the n-th transaction handed to the ledger.
TxHash(n) == "tx" \o ToString(n)

\* print(...): a line of console output, tagged with the source line of
\* the print statement and carrying the value it interpolates.
Line(n, data) == [line |-> n, data |-> data]

Say(lines) == console' = console \o lines

\* An account exists on the ledger once it holds funds; account_info
\* (get_balance) fails for an account that does not exist.
AccountExists(w) == balances[w] > 0

(* ------------------------------------------------------------------ *)
(* Transactions                                                        *)
(* ------------------------------------------------------------------ *)

\* The UTF-8 bytes of one code point.
Utf8Char(c) ==
  IF c < 128 THEN <<c>>
  ELSE IF c < 2048 THEN <<192 + (c \div 64), 128 + (c % 64)>>
  ELSE IF c < 65536
       THEN <<224 + (c \div 4096), 128 + ((c \div 64) % 64), 128 + (c % 64)>>
       ELSE <<240 + (c \div 262144), 128 + ((c \div 4096) % 64),
              128 + ((c \div 64) % 64), 128 + (c % 64)>>

\* text.encode('utf-8'): the bytes of a text.
Utf8Encode(text) ==
  LET enc[i \in 0..Len(text)] ==
        IF i = 0 THEN <<>> ELSE enc[i - 1] \o Utf8Char(text[i])
  IN enc[Len(text)]

HexDigits ==
  <<"0", "1", "2", "3", "4", "5", "6", "7", "8", "9", "a", "b", "c", "d",
    "e", "f">>

\* bytes.hex(): two lower-case hexadecimal digits for each byte.
HexEncode(bytes) ==
  [i \in 1..(2 * Len(bytes)) |->
     IF i % 2 = 1 THEN HexDigits[(bytes[(i + 1) \div 2] \div 16) + 1]
                  ELSE HexDigits[(bytes[i \div 2] % 16) + 1]]

\* A variant of Memos that fills the two fields the other way round.
MemosSwapped(memo, memo_type) ==
  IF memo # <<>>
  THEN <<[MemoData |-> HexEncode(Utf8Encode(memo_type)),
          MemoType |-> HexEncode(Utf8Encode(memo))]>>
  ELSE <<>>

\* memo.encode('utf-8').hex() and the fixed MemoType of each method; no
\* memos field is set for an empty memo (`if memo:`).
Memos(memo, memo_type) ==
  IF memo # <<>>
  THEN <<[MemoData |-> HexEncode(Utf8Encode(memo)),
          MemoType |-> HexEncode(Utf8Encode(memo_type))]>>
  ELSE <<>>

\* Payment(account, destination, amount) with its memos.
PaymentTx(from_wallet, to_wallet, amount_xrp, memo) ==
  [TransactionType |-> "Payment",
   account |-> classic_address(from_wallet),
   destination |-> classic_address(to_wallet),
   amount |-> xrp_to_drops(amount_xrp),
   finish_after |-> 0,
   memos |-> Memos(memo, PaymentMemoType)]

\* A variant of FinishAfter that takes the delay in minutes.
FinishAfterMinutes(current_time, days) ==
  current_time + (days * 24 * 60) - RIPPLE_EPOCH

\* finish_after of create_escrow, computed from current_time.
FinishAfter(current_time, days) ==
  current_time + (days * 24 * 60 * 60) - RIPPLE_EPOCH

\* A variant of EscrowTx that builds a direct payment of the amount.
EscrowTxAsPayment(from_wallet, to_wallet, amount_xrp, days, memo) ==
  PaymentTx(from_wallet, to_wallet, amount_xrp, memo)

\* EscrowCreate(account, destination, amount, finish_after) with its memos.
EscrowTx(from_wallet, to_wallet, amount_xrp, days, memo) ==
  [TransactionType |-> "EscrowCreate",
   account |-> classic_address(from_wallet),
   destination |-> classic_address(to_wallet),
   amount |-> xrp_to_drops(amount_xrp),
   finish_after |-> FinishAfter(clock, days),
   memos |-> Memos(memo, EscrowMemoType)]

\* The wallet an address belongs to.
WalletOf(address) == CHOOSE w \in Roles : classic_address(w) = address

\* submit_and_wait(tx, client, wallet) is entered: the transaction is on its
\* way to the ledger.  status, pending, applied and returned record what
\* becomes of it; memo is the memo argument of the method that built it.
Submitted(tx, memo) ==
  [tx |-> tx, memo |-> memo, submit_time |-> clock, status |-> "inflight",
   pending |-> TRUE, applied |-> FALSE, returned |-> Unset]

\* A variant of SubmitTx that hands the transaction to the ledger twice.
SubmitTxTwice(tx, memo) ==
  txs' = txs \o <<Submitted(tx, memo), Submitted(tx, memo)>>

SubmitTx(tx, memo) == txs' = Append(txs, Submitted(tx, memo))

(* ------------------------------------------------------------------ *)
(* The ledger                                                          *)
(* ------------------------------------------------------------------ *)

\* The ledger applies a transaction only if it moves a positive amount the
\* sender holds and, for an escrow, releases after the current close time.
CanApply(n) ==
  LET t == txs[n].tx IN
  /\ t.amount > 0
  /\ balances[WalletOf(t.account)] >= t.amount
  /\ (t.TransactionType = "EscrowCreate"
        => t.finish_after + RIPPLE_EPOCH > clock)

\* A variant of ApplyLedger in which an escrow pays its destination at once
\* instead of locking the amount.
ApplyLedgerNoLock(n) ==
  LET t == txs[n].tx
      src == WalletOf(t.account)
      dst == WalletOf(t.destination)
  IN /\ balances' = [balances EXCEPT ![src] = @ - t.amount,
                                      ![dst] = @ + (2 * t.amount)]
     /\ UNCHANGED escrows

\* A payment moves its amount to the destination; an escrow locks it.
ApplyLedger(n) ==
  LET t == txs[n].tx
      src == WalletOf(t.account)
      dst == WalletOf(t.destination)
  IN IF t.TransactionType = "Payment"
     THEN /\ balances' = [balances EXCEPT ![src] = @ - t.amount,
                                          ![dst] = @ + t.amount]
          /\ UNCHANGED escrows
     ELSE /\ balances' = [balances EXCEPT ![src] = @ - t.amount]
          /\ escrows' = Append(escrows,
                               [account |-> t.account,
                                destination |-> t.destination,
                                amount |-> t.amount,
                                finish_after |-> t.finish_after])

\* What submit_and_wait can do with the n-th transaction:
\*   tesSUCCESS  validated and applied;
\*   tecFAILED   validated with a failure code (response without tesSUCCESS);
\*   error       an exception (timeout, connection lost, submission refused):
\*               the transaction may still be applied later, or never.
Outcomes == {"tesSUCCESS", "tecFAILED", "error"}

\* submit_and_wait returns (or raises) after 1..MaxWait seconds; ret is
\* what the calling method then returns.
SubmitAndWait(n, o, ret) ==
  /\ \E d \in 1..MaxWait : clock' = clock + d
  /\ IF o = "tesSUCCESS"
     THEN CanApply(n) /\ ApplyLedger(n)
     ELSE UNCHANGED <<balances, escrows>>
  /\ txs' = [txs EXCEPT ![n] = [@ EXCEPT !.status = o,
                                         !.pending = (o = "error"),
                                         !.applied = (o = "tesSUCCESS"),
                                         !.returned = ret]]

\* A transaction whose submit_and_wait raised is applied after all.
LedgerApplyPending(n) ==
  /\ txs[n].pending /\ txs[n].status = "error"
  /\ CanApply(n) /\ ApplyLedger(n)
  /\ txs' = [txs EXCEPT ![n] = [@ EXCEPT !.pending = FALSE,
                                         !.applied = TRUE]]
  /\ UNCHANGED <<pc, clock, wallets, other_pc, funded, console>>
  /\ UNCHANGED flowVars /\ UNCHANGED apiVars

\* A transaction whose submit_and_wait raised never reaches a ledger.
LedgerDropPending(n) ==
  /\ txs[n].pending /\ txs[n].status = "error"
  /\ txs' = [txs EXCEPT ![n] = [@ EXCEPT !.pending = FALSE]]
  /\ UNCHANGED <<pc, clock, wallets, other_pc, balances, escrows, funded, console>>
  /\ UNCHANGED flowVars /\ UNCHANGED apiVars

(* ------------------------------------------------------------------ *)
(* The methods of XRPConstructionSimulator                             *)
(* ------------------------------------------------------------------ *)

\* create_wallet(label): prints the label, the address and the seed.
CreateWalletPrints(w) ==
  <<Line(39, w), Line(40, classic_address(w)), Line(41, seed(w)),
    Line(42, "")>>

\* get_balance(wallet): the balance in XRP, printed at line 76.
GetBalance(w) == drops_to_xrp(balances'[w])

GetBalancePrints(w) ==
  <<Line(76, ToString(GetBalance(w)))>>

\* send_payment up to the call of submit_and_wait.
SendPaymentPrints(from_wallet, to_wallet, amount_xrp) ==
  <<Line(81, ToString(amount_xrp)), Line(82, classic_address(from_wallet)),
    Line(83, classic_address(to_wallet))>>

\* send_payment returns the hash only for tesSUCCESS followed by a balance
\* read that does not raise; None otherwise.
SendPaymentResult(n, o, read_ok) ==
  IF o = "tesSUCCESS" /\ read_ok THEN TxHash(n) ELSE None

\* send_payment from the return of submit_and_wait on.
SendPaymentReturnPrints(n, o, read_ok) ==
  LET w == WalletOf(txs[n].tx.account) IN
  IF o = "tesSUCCESS"
  THEN <<Line(109, ""), Line(110, TxHash(n)), Line(111, "True")>>
       \o (IF read_ok THEN GetBalancePrints(w) ELSE <<Line(120, "")>>)
  ELSE IF o = "tecFAILED" THEN <<Line(117, "")>> ELSE <<Line(120, "")>>

\* The balance read of line 114 can succeed only for an existing account.
ReadOk(n, o, read_ok) ==
  (o = "tesSUCCESS" /\ read_ok) => balances'[WalletOf(txs[n].tx.account)] > 0

\* create_escrow up to the call of submit_and_wait.
CreateEscrowPrints(from_wallet, to_wallet, amount_xrp, days) ==
  <<Line(125, ToString(amount_xrp)), Line(126, classic_address(from_wallet)),
    Line(127, classic_address(to_wallet)), Line(128, ToString(days))>>

\* create_escrow returns the hash for tesSUCCESS and None otherwise.
CreateEscrowResult(n, o) == IF o = "tesSUCCESS" THEN TxHash(n) ELSE None

\* create_escrow from the return of submit_and_wait on.
CreateEscrowReturnPrints(n, o) ==
  IF o = "tesSUCCESS"
  THEN <<Line(161, ""), Line(162, TxHash(n)),
         Line(163, ToString(txs[n].tx.finish_after + RIPPLE_EPOCH))>>
  ELSE IF o = "tecFAILED" THEN <<Line(166, "")>> ELSE <<Line(169, "")>>

(* ------------------------------------------------------------------ *)
(* simulate_construction_payment_flow                                  *)
(* ------------------------------------------------------------------ *)

\* The state after XRPConstructionSimulator(): connected, nothing done.
Init ==
  /\ pc = "start"
  /\ clock \in StartTimes
  /\ wallets = {}
  /\ balances = [w \in Roles |-> 0]
  /\ escrows = <<>>
  /\ funded = [w \in Roles |-> 0]
  /\ txs = <<>>
  /\ console = <<Line(34, "")>>
  /\ escrow_hash = Unset
  /\ gc_payment_hash = Unset
  /\ sub_payment_hash = Unset
  /\ final_balances = <<>>
  /\ flow_return = Unset
  /\ wallet_file = NoFile
  /\ api_call = None
  /\ api_result = Unset
  /\ api_calls = 0
  /\ other_pc = "off"

\* Step 1 (lines 182-186): the three wallets are created.
CreateWallets ==
  /\ pc = "start"
  /\ wallets' = Roles
  /\ UNCHANGED other_pc
  /\ Say(<<Line(183, "")>> \o CreateWalletPrints("owner")
         \o CreateWalletPrints("gc") \o CreateWalletPrints("subcontractor"))
  /\ pc' = "fund"
  /\ UNCHANGED <<clock, balances, escrows, funded, txs>>
  /\ UNCHANGED flowVars /\ UNCHANGED apiVars

\* fund_wallet(wallet): POST to the faucet.  With status 200 the account is
\* credited, the method sleeps 4 seconds and reads the balance: True if the
\* read succeeds, False if it raises.  Any other status, or an exception of
\* the request, gives False and no credit.
FundWallet(w, status, xrp, read_ok, ok) ==
  /\ status \in {"200", "other", "exception"}
  /\ IF status = "200"
     THEN /\ balances' = [balances EXCEPT ![w] = @ + xrp_to_drops(xrp)]
          /\ funded' = [funded EXCEPT ![w] = @ + xrp_to_drops(xrp)]
          /\ clock' = clock + 4
          /\ ok = read_ok
     ELSE /\ UNCHANGED <<balances, funded, clock>>
          /\ ok = FALSE

FundWalletPrints(w, status, read_ok) ==
  <<Line(47, classic_address(w))>> \o
  (IF status = "200"
   THEN (IF read_ok THEN <<Line(63, ToString(GetBalance(w)))>>
                    ELSE <<Line(69, "")>>)
   ELSE IF status = "other" THEN <<Line(66, "")>> ELSE <<Line(69, "")>>)

\* Step 2 (lines 188-192): the owner wallet is funded, or the flow returns.
FundOwner ==
  /\ pc = "fund"
  /\ \E status \in {"200", "other", "exception"}, xrp \in FaucetAmounts,
        read_ok \in BOOLEAN, ok \in BOOLEAN :
       /\ FundWallet("owner", status, xrp, read_ok, ok)
       /\ IF ok
          THEN /\ Say(<<Line(189, "")>>
                      \o FundWalletPrints("owner", status, read_ok))
               /\ pc' = "escrow"
               /\ UNCHANGED flow_return
          ELSE /\ Say(<<Line(189, "")>>
                      \o FundWalletPrints("owner", status, read_ok)
                      \o <<Line(191, "")>>)
               /\ pc' = "done"
               /\ flow_return' = None
  /\ UNCHANGED <<wallets, other_pc, escrows, txs, escrow_hash, gc_payment_hash,
                 sub_payment_hash, final_balances, wallet_file>>
  /\ UNCHANGED apiVars

\* Step 3 (lines 194-203): create_escrow is called and reaches
\* submit_and_wait.
EscrowSubmit ==
  /\ pc = "escrow"
  /\ Say(<<Line(195, "")>>
         \o CreateEscrowPrints("owner", "gc", escrow_amount,
                               days_until_release))
  /\ SubmitTx(EscrowTx("owner", "gc", escrow_amount, days_until_release,
                       EscrowMemo), EscrowMemo)
  /\ pc' = "escrow_wait"
  /\ UNCHANGED <<clock, wallets, other_pc, balances, escrows, funded>>
  /\ UNCHANGED flowVars /\ UNCHANGED apiVars

\* A variant of AfterEscrow that goes on whatever create_escrow returned.
AfterEscrowUnchecked(hash) == "pay_gc"

\* The flow goes on after create_escrow only with a hash (line 205).
AfterEscrow(hash) == IF hash = None THEN "done" ELSE "pay_gc"

\* create_escrow returns; without a hash the flow returns (lines 205-207).
EscrowReturn ==
  /\ pc = "escrow_wait"
  /\ \E o \in Outcomes :
       LET n == Len(txs)
           hash == CreateEscrowResult(n, o)
       IN /\ SubmitAndWait(n, o, hash)
          /\ escrow_hash' = hash
          /\ pc' = AfterEscrow(hash)
          /\ IF hash = None
             THEN /\ Say(CreateEscrowReturnPrints(n, o) \o <<Line(206, "")>>)
                  /\ flow_return' = None
             ELSE /\ Say(CreateEscrowReturnPrints(n, o))
                  /\ UNCHANGED flow_return
  /\ UNCHANGED <<wallets, other_pc, funded, gc_payment_hash, sub_payment_hash,
                 final_balances, wallet_file>>
  /\ UNCHANGED apiVars

\* A variant of SubPaymentSigner: step 5 signed with the owner wallet.
SubPaymentSignerOwner == "owner"

\* The wallet that signs the payment of step 5.

SubPaymentSigner == "gc"

\* Step 4 (lines 209-217): send_payment owner -> gc reaches submit_and_wait.
GcPaymentSubmit ==
  /\ pc = "pay_gc"
  /\ Say(<<Line(210, "")>> \o SendPaymentPrints("owner", "gc", gc_payment))
  /\ SubmitTx(PaymentTx("owner", "gc", gc_payment, GcMemo), GcMemo)
  /\ pc' = "pay_gc_wait"
  /\ UNCHANGED <<clock, wallets, other_pc, balances, escrows, funded>>
  /\ UNCHANGED flowVars /\ UNCHANGED apiVars

\* send_payment owner -> gc returns; its result is only stored.  (The
\* balance read of line 114 happens only after tesSUCCESS.)
GcPaymentReturn ==
  /\ pc = "pay_gc_wait"
  /\ \E o \in Outcomes, read_ok \in BOOLEAN :
       LET n == Len(txs)
           hash == SendPaymentResult(n, o, read_ok)
       IN /\ SubmitAndWait(n, o, hash)
          /\ ReadOk(n, o, read_ok)
          /\ (o # "tesSUCCESS" => read_ok)
          /\ gc_payment_hash' = hash
          /\ Say(SendPaymentReturnPrints(n, o, read_ok))
  /\ pc' = "sleep"
  /\ UNCHANGED <<wallets, other_pc, funded, escrow_hash, sub_payment_hash,
                 final_balances, flow_return, wallet_file>>
  /\ UNCHANGED apiVars

\* A variant of the sleep of line 219 that never returns.
SleepForever ==
  /\ pc = "sleep"
  /\ pc' = "sleep"
  /\ UNCHANGED <<clock, wallets, other_pc, balances, escrows, funded, txs,
                 console>>
  /\ UNCHANGED flowVars /\ UNCHANGED apiVars

\* time.sleep(2) (line 219).
Sleep ==
  /\ pc = "sleep"
  /\ clock' = clock + 2
  /\ pc' = "pay_sub"
  /\ UNCHANGED <<wallets, other_pc, balances, escrows, funded, txs, console>>
  /\ UNCHANGED flowVars /\ UNCHANGED apiVars

\* Step 5 (lines 221-229): send_payment gc -> subcontractor reaches
\* submit_and_wait.
SubPaymentSubmit ==
  /\ pc = "pay_sub"
  /\ Say(<<Line(222, "")>>
         \o SendPaymentPrints(SubPaymentSigner, "subcontractor", sub_payment))
  /\ SubmitTx(PaymentTx(SubPaymentSigner, "subcontractor", sub_payment,
                        SubMemo), SubMemo)
  /\ pc' = "pay_sub_wait"
  /\ UNCHANGED <<clock, wallets, other_pc, balances, escrows, funded>>
  /\ UNCHANGED flowVars /\ UNCHANGED apiVars

\* send_payment gc -> subcontractor returns; its result is only stored.
SubPaymentReturn ==
  /\ pc = "pay_sub_wait"
  /\ \E o \in Outcomes, read_ok \in BOOLEAN :
       LET n == Len(txs)
           hash == SendPaymentResult(n, o, read_ok)
       IN /\ SubmitAndWait(n, o, hash)
          /\ ReadOk(n, o, read_ok)
          /\ (o # "tesSUCCESS" => read_ok)
          /\ sub_payment_hash' = hash
          /\ Say(SendPaymentReturnPrints(n, o, read_ok))
  /\ pc' = "final"
  /\ UNCHANGED <<wallets, other_pc, funded, escrow_hash, gc_payment_hash,
                 final_balances, flow_return, wallet_file>>
  /\ UNCHANGED apiVars

\* The wallets whose balance is read at lines 235-237, in that order.
FinalOrder == <<"owner", "gc", "subcontractor">>

\* Lines 231-237: the three final balances are read.  A read raises for an
\* account that does not exist and may raise on a network failure; the
\* exception is not caught and ends the run.
FinalBalances ==
  /\ pc = "final"
  /\ UNCHANGED <<clock, wallets, other_pc, balances, escrows, funded, txs>>
  /\ \E k \in 0..3 :
       /\ \A i \in 1..k : AccountExists(FinalOrder[i])
       /\ final_balances' = [i \in 1..k |-> GetBalance(FinalOrder[i])]
       /\ Say(<<Line(233, "")>>
              \o [i \in 1..k |-> Line(76, ToString(GetBalance(FinalOrder[i])))])
       /\ pc' = IF k = 3 THEN "summary" ELSE "crashed"
  /\ UNCHANGED <<escrow_hash, gc_payment_hash, sub_payment_hash, flow_return,
                 wallet_file>>
  /\ UNCHANGED apiVars

\* Lines 239-248: the run is reported complete, with the three results.
Summary ==
  /\ pc = "summary"
  /\ Say(<<Line(241, ""), Line(244, escrow_hash), Line(245, gc_payment_hash),
           Line(246, sub_payment_hash)>>)
  /\ pc' = "save"
  /\ UNCHANGED <<clock, wallets, other_pc, balances, escrows, funded, txs>>
  /\ UNCHANGED flowVars /\ UNCHANGED apiVars

\* A variant of wallet_data that stores the seed of the owner for every
\* role.
wallet_data_owner_seed ==
  [w \in Roles |-> [address |-> classic_address(w), seed |-> seed("owner")]]

\* wallet_data (lines 251-264).
wallet_data ==
  [w \in Roles |-> [address |-> classic_address(w), seed |-> seed(w)]]

\* Lines 250-270: the wallets are written to simulation_wallets.json and
\* the flow returns; open() may raise, which ends the run.
SaveWallets ==
  /\ pc = "save"
  /\ \E io_ok \in BOOLEAN :
       IF io_ok
       THEN /\ wallet_file' = wallet_data
            /\ Say(<<Line(269, ""), Line(270, "")>>)
            /\ flow_return' = None
            /\ pc' = "done"
       ELSE /\ UNCHANGED <<wallet_file, console, flow_return>>
            /\ pc' = "crashed"
  /\ UNCHANGED <<clock, wallets, other_pc, balances, escrows, funded, txs, escrow_hash,
                 gc_payment_hash, sub_payment_hash, final_balances>>
  /\ UNCHANGED apiVars

\* The ledger settles a transaction whose outcome the caller never learnt.
Ledger ==
  \E n \in 1..Len(txs) : LedgerApplyPending(n) \/ LedgerDropPending(n)

Next ==
  \/ CreateWallets
  \/ FundOwner
  \/ EscrowSubmit
  \/ EscrowReturn
  \/ GcPaymentSubmit
  \/ GcPaymentReturn
  \/ Sleep
  \/ SubPaymentSubmit
  \/ SubPaymentReturn
  \/ FinalBalances
  \/ Summary
  \/ SaveWallets
  \/ Ledger

Spec == Init /\ [][Next]_vars

\* The steps of the program itself. The flow is straight-line code: once a
\* call has returned or raised, the next statement runs.
Run ==
  \/ CreateWallets
  \/ FundOwner
  \/ EscrowSubmit
  \/ EscrowReturn
  \/ GcPaymentSubmit
  \/ GcPaymentReturn
  \/ Sleep
  \/ SubPaymentSubmit
  \/ SubPaymentReturn
  \/ FinalBalances
  \/ Summary
  \/ SaveWallets

\* The flow under the assumption that every faucet request, submit_and_wait
\* and balance query returns or raises. The ledger owes nothing to a
\* transaction whose submit_and_wait raised, so Ledger has no fairness.
FairSpec == Init /\ [][Next]_vars /\ WF_vars(Run)

(* ------------------------------------------------------------------ *)
(* Two runs at once                                                    *)
(* ------------------------------------------------------------------ *)

\* A second run of the script in the same working directory.  Its wallets
\* come from its own Wallet.create() calls, so the accounts it funds and
\* pays are not those of the first run; what the two runs have in common
\* is the file simulation_wallets.json.
OtherWallet(w) == w \o "#2"

\* wallet_data of the second run.
other_wallet_data ==
  [w \in Roles |-> [address |-> classic_address(OtherWallet(w)),
                    seed |-> seed(OtherWallet(w))]]

ConcInit ==
  /\ pc = "start"
  /\ clock \in StartTimes
  /\ wallets = {}
  /\ balances = [w \in Roles |-> 0]
  /\ escrows = <<>>
  /\ funded = [w \in Roles |-> 0]
  /\ txs = <<>>
  /\ console = <<Line(34, "")>>
  /\ escrow_hash = Unset
  /\ gc_payment_hash = Unset
  /\ sub_payment_hash = Unset
  /\ final_balances = <<>>
  /\ flow_return = Unset
  /\ wallet_file = NoFile
  /\ api_call = None
  /\ api_result = Unset
  /\ api_calls = 0
  /\ other_pc = "start"

\* Lines 172-248 of the second run: it works on its own wallets and
\* accounts and either returns early or raises (lines 192, 207, 235-237)
\* or reaches line 250.
OtherRun ==
  /\ other_pc = "start"
  /\ other_pc' \in {"save", "done"}
  /\ UNCHANGED <<pc, clock, wallets, balances, escrows, funded, txs, console>>
  /\ UNCHANGED flowVars /\ UNCHANGED apiVars

\* Lines 250-270 of the second run: open('simulation_wallets.json', 'w')
\* and json.dump of its wallet_data; open() may raise.
OtherSaveWallets ==
  /\ other_pc = "save"
  /\ \E io_ok \in BOOLEAN :
       IF io_ok THEN wallet_file' = other_wallet_data
                ELSE UNCHANGED wallet_file
  /\ other_pc' = "done"
  /\ UNCHANGED <<pc, clock, wallets, balances, escrows, funded, txs, console,
                 escrow_hash, gc_payment_hash, sub_payment_hash,
                 final_balances, flow_return>>
  /\ UNCHANGED apiVars

ConcNext ==
  \/ Next
  \/ OtherRun
  \/ OtherSaveWallets

ConcSpec == ConcInit /\ [][ConcNext]_vars

(* ------------------------------------------------------------------ *)
(* A client of the methods                                             *)
(* ------------------------------------------------------------------ *)

\* The wallets a client signs with: the funded one.
ApiSigners == {"owner"}

\* The client starts like the flow: a simulator just constructed.
ApiInit ==
  /\ pc = "api_start"
  /\ clock \in StartTimes
  /\ wallets = {}
  /\ balances = [w \in Roles |-> 0]
  /\ escrows = <<>>
  /\ funded = [w \in Roles |-> 0]
  /\ txs = <<>>
  /\ console = <<Line(34, "")>>
  /\ escrow_hash = Unset
  /\ gc_payment_hash = Unset
  /\ sub_payment_hash = Unset
  /\ final_balances = <<>>
  /\ flow_return = Unset
  /\ wallet_file = NoFile
  /\ api_call = None
  /\ api_result = Unset
  /\ api_calls = 0
  /\ other_pc = "off"

\* The client creates the three wallets (create_wallet, three times).
ApiCreateWallets ==
  /\ pc = "api_start"
  /\ wallets' = Roles
  /\ UNCHANGED other_pc
  /\ Say(CreateWalletPrints("owner") \o CreateWalletPrints("gc")
         \o CreateWalletPrints("subcontractor"))
  /\ pc' = "api_fund"
  /\ UNCHANGED <<clock, balances, escrows, funded, txs>>
  /\ UNCHANGED flowVars /\ UNCHANGED apiVars

\* The client calls fund_wallet(owner_wallet).
ApiFundWallet ==
  /\ pc = "api_fund"
  /\ \E status \in {"200", "other", "exception"}, xrp \in FaucetAmounts,
        read_ok \in BOOLEAN, ok \in BOOLEAN :
       /\ FundWallet("owner", status, xrp, read_ok, ok)
       /\ Say(FundWalletPrints("owner", status, read_ok))
       /\ api_result' = IF ok THEN "True" ELSE "False"
  /\ pc' = "api"
  /\ UNCHANGED <<wallets, other_pc, escrows, txs, api_call, api_calls>>
  /\ UNCHANGED flowVars

\* The client calls send_payment(from_wallet, to_address, amount_xrp).
\* xrp_to_drops (line 89) is outside the try: its exception leaves the
\* method before anything is submitted.
ApiSendPaymentCall ==
  /\ pc = "api" /\ api_call = None /\ api_calls < MaxCalls
  /\ \E from_wallet \in ApiSigners, to_wallet \in Roles,
        amount_xrp \in ApiAmounts :
       /\ from_wallet # to_wallet
       /\ Say(SendPaymentPrints(from_wallet, to_wallet, amount_xrp))
       /\ IF XrpRangeOk(amount_xrp)
          THEN /\ SubmitTx(PaymentTx(from_wallet, to_wallet, amount_xrp,
                                     <<>>), <<>>)
               /\ api_call' = "send_payment"
               /\ UNCHANGED api_result
          ELSE /\ api_result' = "XRPRangeError"
               /\ UNCHANGED <<txs, api_call>>
  /\ api_calls' = api_calls + 1
  /\ UNCHANGED <<pc, clock, wallets, other_pc, balances, escrows, funded>>
  /\ UNCHANGED flowVars

\* send_payment returns to the client.
ApiSendPaymentReturn ==
  /\ pc = "api" /\ api_call = "send_payment"
  /\ \E o \in Outcomes, read_ok \in BOOLEAN :
       LET n == Len(txs)
           hash == SendPaymentResult(n, o, read_ok)
       IN /\ SubmitAndWait(n, o, hash)
          /\ ReadOk(n, o, read_ok)
          /\ (o # "tesSUCCESS" => read_ok)
          /\ api_result' = hash
          /\ Say(SendPaymentReturnPrints(n, o, read_ok))
  /\ api_call' = None
  /\ UNCHANGED <<pc, wallets, other_pc, funded, api_calls>>
  /\ UNCHANGED flowVars

\* The client calls create_escrow(from_wallet, to_address, amount_xrp,
\* days_until_release).
ApiCreateEscrowCall ==
  /\ pc = "api" /\ api_call = None /\ api_calls < MaxCalls
  /\ \E from_wallet \in ApiSigners, to_wallet \in Roles,
        amount_xrp \in ApiAmounts, days \in ApiDays :
       /\ from_wallet # to_wallet
       /\ Say(CreateEscrowPrints(from_wallet, to_wallet, amount_xrp, days))
       /\ IF XrpRangeOk(amount_xrp)
          THEN /\ SubmitTx(EscrowTx(from_wallet, to_wallet, amount_xrp, days,
                                    <<>>), <<>>)
               /\ api_call' = "create_escrow"
               /\ UNCHANGED api_result
          ELSE /\ api_result' = "XRPRangeError"
               /\ UNCHANGED <<txs, api_call>>
  /\ api_calls' = api_calls + 1
  /\ UNCHANGED <<pc, clock, wallets, other_pc, balances, escrows, funded>>
  /\ UNCHANGED flowVars

\* create_escrow returns to the client.
ApiCreateEscrowReturn ==
  /\ pc = "api" /\ api_call = "create_escrow"
  /\ \E o \in Outcomes :
       LET n == Len(txs)
           hash == CreateEscrowResult(n, o)
       IN /\ SubmitAndWait(n, o, hash)
          /\ api_result' = hash
          /\ Say(CreateEscrowReturnPrints(n, o))
  /\ api_call' = None
  /\ UNCHANGED <<pc, wallets, other_pc, funded, api_calls>>
  /\ UNCHANGED flowVars

ApiNext ==
  \/ ApiCreateWallets
  \/ ApiFundWallet
  \/ ApiSendPaymentCall
  \/ ApiSendPaymentReturn
  \/ ApiCreateEscrowCall
  \/ ApiCreateEscrowReturn
  \/ Ledger

ApiSpec == ApiInit /\ [][ApiNext]_vars

(* ------------------------------------------------------------------ *)
(* A client passing memos                                              *)
(* ------------------------------------------------------------------ *)

\* The client calls send_payment(owner_wallet, to_address, 25, memo) once.
MemoSendPaymentCall ==
  /\ pc = "api" /\ api_call = None /\ txs = <<>>
  /\ \E to_wallet \in Roles \ {"owner"}, memo \in MemoTexts :
       /\ Say(SendPaymentPrints("owner", to_wallet, gc_payment))
       /\ SubmitTx(PaymentTx("owner", to_wallet, gc_payment, memo), memo)
  /\ api_call' = "send_payment"
  /\ api_calls' = api_calls + 1
  /\ UNCHANGED <<pc, clock, wallets, other_pc, balances, escrows, funded, api_result>>
  /\ UNCHANGED flowVars

\* The client calls create_escrow(owner_wallet, to_address, 50, 7, memo)
\* once.
MemoCreateEscrowCall ==
  /\ pc = "api" /\ api_call = None /\ txs = <<>>
  /\ \E to_wallet \in Roles \ {"owner"}, memo \in MemoTexts :
       /\ Say(CreateEscrowPrints("owner", to_wallet, escrow_amount,
                                 days_until_release))
       /\ SubmitTx(EscrowTx("owner", to_wallet, escrow_amount,
                            days_until_release, memo), memo)
  /\ api_call' = "create_escrow"
  /\ api_calls' = api_calls + 1
  /\ UNCHANGED <<pc, clock, wallets, other_pc, balances, escrows, funded, api_result>>
  /\ UNCHANGED flowVars

MemoNext ==
  \/ ApiCreateWallets
  \/ ApiFundWallet
  \/ MemoSendPaymentCall
  \/ ApiSendPaymentReturn
  \/ MemoCreateEscrowCall
  \/ ApiCreateEscrowReturn
  \/ Ledger

MemoSpec == ApiInit /\ [][MemoNext]_vars

(* ------------------------------------------------------------------ *)
(* Properties                                                          *)
(* ------------------------------------------------------------------ *)

\* The results the flow recorded for its three steps, in plan order.
StepResult == <<escrow_hash, gc_payment_hash, sub_payment_hash>>

\* Step k was recorded as committed: its method returned a hash.
RecordedCommitted(k) == StepResult[k] \notin {None, Unset}

\* t is the transaction of step k of the plan: 1 escrow creation,
\* 2 payment owner -> gc, 3 payment gc -> subcontractor.
IsStep(k, t) ==
  CASE k = 1 -> t.tx.TransactionType = "EscrowCreate"
    [] k = 2 -> /\ t.tx.TransactionType = "Payment"
                /\ t.tx.account = classic_address("owner")
    [] k = 3 -> /\ t.tx.TransactionType = "Payment"
                /\ t.tx.account = classic_address("gc")

\* Step k was handed to the ledger.
StepSubmitted(k) == \E n \in 1..Len(txs) : IsStep(k, txs[n])

\* Step k ended with the given ledger status.
StepStatus(k, status) ==
  \E n \in 1..Len(txs) : IsStep(k, txs[n]) /\ txs[n].status = status

\* The run was reported complete (line 241).
ReportedComplete == \E i \in 1..Len(console) : console[i].line = 241

\* C1: if step k is the first step that yields no transaction hash, the
\* k-1 earlier steps are recorded as committed and none of the steps
\* k+1..3 is submitted to the ledger.
C1_AbortAtFirstFailure ==
  \A k \in 1..3 :
    (StepResult[k] = None /\ \A j \in 1..(k - 1) : RecordedCommitted(j))
      => \A j \in (k + 1)..3 : ~StepSubmitted(j)

\* C2: the payment gc -> subcontractor is submitted only after the payment
\* owner -> gc was confirmed committed; after an indeterminate outcome of
\* the payment owner -> gc it is never submitted.
C2_ForwardOnlyAfterCommitted ==
  /\ StepSubmitted(3) => StepStatus(2, "tesSUCCESS")
  /\ StepStatus(2, "error") => ~StepSubmitted(3)

\* C3: the run is reported complete only if every one of its three steps
\* was committed; never after a rejected or an indeterminate step.
C3_CompleteOnlyIfAllCommitted ==
  ReportedComplete => \A k \in 1..3 : StepStatus(k, "tesSUCCESS")

\* C4: an indeterminate outcome (exception while waiting for validation)
\* and a rejection by the ledger never give the same return value.
C4_IndeterminateDistinct ==
  \A i, j \in 1..Len(txs) :
    (txs[i].status = "error" /\ txs[j].status = "tecFAILED")
      => txs[i].returned # txs[j].returned

\* C5: every run that ends, aborted or not, returns to its caller a result
\* log with one entry for each step attempted, holding each step's result.
C5_ResultLogReturned ==
  pc \in {"done", "crashed"} =>
    /\ flow_return \notin {Unset, None}
    /\ flow_return = [k \in 1..Len(txs) |-> txs[k].returned]

\* C6: with the owner funded with 1000 XRP and all three steps committed,
\* the final balances read are owner 925, gc 15, subcontractor 10.
C6_FinalBalances ==
  ( /\ funded["owner"] = xrp_to_drops(1000)
    /\ \A k \in 1..3 : RecordedCommitted(k)
    /\ Len(final_balances) = 3 )
  => final_balances = <<925, 15, 10>>

C6_Witness ==
  /\ pc = "done"
  /\ funded["owner"] = xrp_to_drops(1000)
  /\ \A k \in 1..3 : RecordedCommitted(k)
  /\ final_balances = <<925, 15, 10>>

\* C7: once the escrow of 50 XRP of an owner funded with 1000 XRP has
\* committed, exactly one escrow has been created, to the gc wallet, its
\* release time is the submission time plus 7 days in the Ripple epoch,
\* and before the next step the owner's balance is 50 XRP lower.
C7_EscrowCreated ==
  (RecordedCommitted(1) /\ funded["owner"] = xrp_to_drops(1000)) =>
    /\ Len(escrows) = 1
    /\ Cardinality({n \in 1..Len(txs) : IsStep(1, txs[n])}) = 1
    /\ escrows[1].destination = classic_address("gc")
    /\ escrows[1].amount = 50 * 1000000
    /\ escrows[1].finish_after
         = txs[1].submit_time + 7 * 24 * 60 * 60 - 946684800
    /\ pc = "pay_gc" => balances["owner"] = (1000 - 50) * 1000000

C7_Witness ==
  /\ pc = "pay_gc"
  /\ funded["owner"] = xrp_to_drops(1000)
  /\ RecordedCommitted(1)
  /\ Len(escrows) = 1
  /\ balances["owner"] = 950 * 1000000

\* C8: create_escrow with days_until_release <= 0 submits nothing: every
\* escrow handed to the ledger releases strictly after its submission.
C8_NoEscrowWithoutDelay ==
  \A n \in 1..Len(txs) :
    txs[n].tx.TransactionType = "EscrowCreate"
      => txs[n].tx.finish_after + RIPPLE_EPOCH > txs[n].submit_time

\* C9: send_payment with an amount <= 0 fails before any network call: no
\* payment handed to the ledger has an amount <= 0.
C9_NoPaymentWithoutAmount ==
  \A n \in 1..Len(txs) :
    txs[n].tx.TransactionType = "Payment" => txs[n].tx.amount > 0

\* C10: no wallet seed ever appears in the console output.
C10_NoSeedLogged ==
  \A i \in 1..Len(console) : \A w \in Roles : console[i].data # seed(w)

\* The value of a hexadecimal digit.
HexValue(d) == CHOOSE i \in 0..15 : HexDigits[i + 1] = d

\* bytes.fromhex(h): the bytes of a string of hexadecimal digits.
RECURSIVE HexDecode(_)
HexDecode(h) ==
  IF Len(h) < 2 THEN <<>>
  ELSE <<HexValue(h[1]) * 16 + HexValue(h[2])>>
       \o HexDecode(SubSeq(h, 3, Len(h)))

\* The number of bytes of the UTF-8 sequence a lead byte starts.
Utf8Width(b) ==
  IF b < 128 THEN 1 ELSE IF b < 224 THEN 2 ELSE IF b < 240 THEN 3 ELSE 4

\* bytes.decode('utf-8'): the text of a sequence of bytes.
RECURSIVE Utf8Decode(_)
Utf8Decode(bytes) ==
  IF bytes = <<>> \/ Len(bytes) < Utf8Width(bytes[1]) THEN <<>>
  ELSE LET b == bytes[1]
           w == Utf8Width(b)
           c == CASE w = 1 -> b
                  [] w = 2 -> (b - 192) * 64 + (bytes[2] - 128)
                  [] w = 3 -> (b - 224) * 4096 + (bytes[2] - 128) * 64
                              + (bytes[3] - 128)
                  [] w = 4 -> (b - 240) * 262144 + (bytes[2] - 128) * 4096
                              + (bytes[3] - 128) * 64 + (bytes[4] - 128)
       IN <<c>> \o Utf8Decode(SubSeq(bytes, w + 1, Len(bytes)))

\* The memo slot of t decodes to the memo text passed and to the tag of
\* the kind of its operation.
MemoDecodes(t) ==
  /\ Len(t.tx.memos) = 1
  /\ Utf8Decode(HexDecode(t.tx.memos[1].MemoData)) = t.memo
  /\ Utf8Decode(HexDecode(t.tx.memos[1].MemoType))
       = (IF t.tx.TransactionType = "Payment" THEN PaymentMemoType
          ELSE EscrowMemoType)

\* C11 as stated: every memo text, the empty one included, and its tag
\* are in the memo slot of the operation and decode to the same bytes.
C11_MemoRoundTripAll ==
  \A n \in 1..Len(txs) : MemoDecodes(txs[n])

\* C11 as amended: every non-empty memo text and the tag of the operation
\* kind decode from the memo slot unchanged, the tags of the two kinds
\* differ, and an empty memo text leaves the memo slot empty.
C11_MemoRoundTrip ==
  /\ PaymentMemoType # EscrowMemoType
  /\ \A n \in 1..Len(txs) :
       IF txs[n].memo = <<>> THEN txs[n].tx.memos = <<>>
       ELSE MemoDecodes(txs[n])

C11_Witness ==
  \E n \in 1..Len(txs) :
    /\ txs[n].memo = <<233, 8364>>
    /\ txs[n].tx.TransactionType = "EscrowCreate"
    /\ MemoDecodes(txs[n])

\* The escrow-creating transactions the ledger has applied.
AppliedEscrows ==
  {n \in 1..Len(txs) :
     txs[n].tx.TransactionType = "EscrowCreate" /\ txs[n].applied}

\* C12: no operation releasing an escrow is ever submitted: every escrow
\* the ledger created stays locked with its 50 XRP, a committed step 1
\* leaves exactly one, and the gc balance never exceeds the 25 XRP of the
\* direct payment.
C12_EscrowStaysLocked ==
  /\ \A n \in 1..Len(txs) :
       txs[n].tx.TransactionType \in {"Payment", "EscrowCreate"}
  /\ Len(escrows) = Cardinality(AppliedEscrows)
  /\ \A i \in 1..Len(escrows) : escrows[i].amount = 50 * 1000000
  /\ RecordedCommitted(1) => Len(escrows) = 1
  /\ balances["gc"] <= 25 * 1000000

C12_Witness ==
  /\ pc = "done"
  /\ \A k \in 1..3 : RecordedCommitted(k)
  /\ Len(escrows) = 1
  /\ escrows[1].amount = 50 * 1000000
  /\ balances["gc"] = 15 * 1000000

\* C13: the steps are handed to the ledger in plan order, a step only
\* after submit_and_wait of the step before it has returned (at most the
\* last operation is being waited for), and no wallet ever signs an
\* operation while another operation it signed can still be applied.
C13_SequentialSteps ==
  /\ Len(txs) <= 3
  /\ \A n \in 1..Len(txs) : IsStep(n, txs[n])
  /\ \A n \in 1..Len(txs) : txs[n].status = "inflight" => n = Len(txs)
  /\ \A i, j \in 1..Len(txs) :
       (i # j /\ txs[i].pending /\ txs[j].pending)
         => txs[i].tx.account # txs[j].tx.account

C13_Witness ==
  /\ Len(txs) = 3
  /\ txs[3].status = "inflight"
  /\ txs[2].status = "error" /\ txs[2].pending
  /\ txs[1].status = "tesSUCCESS"

\* The first run has written its wallets to simulation_wallets.json.
WalletsSaved == \E i \in 1..Len(console) : console[i].line = 269

\* C14: concurrent runs share no mutable state: a run signs only with the
\* wallets it created, and what it wrote (its persisted wallets) is not
\* overwritten by another run.
C14_NoSharedState ==
  /\ \A n \in 1..Len(txs) :
       \E w \in Roles : txs[n].tx.account = classic_address(w)
  /\ WalletsSaved => wallet_file = wallet_data

\* fund_wallet(owner_wallet) returned False (line 191).
FundingFailed == \E i \in 1..Len(console) : console[i].line = 191

\* C15: after a failed funding of the owner wallet nothing is ever handed
\* to the ledger; after a create_escrow without a hash neither payment is
\* submitted, no final balance is read and no wallet file is written.
C15_AbortBeforePayments ==
  /\ FundingFailed => txs = <<>>
  /\ escrow_hash = None =>
       /\ ~StepSubmitted(2) /\ ~StepSubmitted(3)
       /\ final_balances = <<>>
       /\ ~WalletsSaved
       /\ pc = "done"

C15_Witness ==
  /\ escrow_hash = None
  /\ pc = "done"
  /\ Len(txs) = 1
  /\ txs[1].status = "error" /\ txs[1].applied

\* C16: in every step of a run, each step of the plan has been handed to
\* the ledger at most once, a transaction handed over is never replaced,
\* and a result once produced (the value a method returned, the hash
\* variable of the flow) never changes.
C16_SubmittedOnceResultFixed ==
  [][ /\ \A k \in 1..3 :
           Cardinality({n \in 1..Len(txs') : IsStep(k, txs'[n])}) <= 1
      /\ Len(txs') >= Len(txs)
      /\ \A n \in 1..Len(txs) :
           /\ txs'[n].tx = txs[n].tx
           /\ txs[n].returned # Unset => txs'[n].returned = txs[n].returned
      /\ \A k \in 1..3 :
           StepResult[k] # Unset => StepResult'[k] = StepResult[k] ]_vars

C16_Witness ==
  /\ pc = "crashed"
  /\ Len(txs) = 3
  /\ txs[1].status = "tesSUCCESS"
  /\ txs[2].status = "tecFAILED"
  /\ txs[3].status = "error"
  /\ \A k \in 1..3 : StepResult[k] = txs[k].returned

\* C17: send_payment returns the hash exactly when the ledger result of
\* its payment is tesSUCCESS, whatever becomes of the balance read that
\* follows.
C17_HashIffSuccess ==
  \A n \in 1..Len(txs) :
    (txs[n].tx.TransactionType = "Payment" /\ txs[n].returned # Unset)
      => (txs[n].returned = TxHash(n) <=> txs[n].status = "tesSUCCESS")

\* The sum of the amounts of the transactions with the indices in S.
RECURSIVE Total(_)
Total(S) ==
  IF S = {} THEN 0
  ELSE LET n == CHOOSE m \in S : TRUE
       IN txs[n].tx.amount + Total(S \ {n})

\* The drops locked in escrows.
RECURSIVE Locked(_)
Locked(es) == IF es = <<>> THEN 0 ELSE Head(es).amount + Locked(Tail(es))

\* The applied transactions signed by w, and the applied payments to w.
AppliedFrom(w) ==
  {n \in 1..Len(txs) :
     txs[n].applied /\ txs[n].tx.account = classic_address(w)}

AppliedPaymentsTo(w) ==
  {n \in 1..Len(txs) :
     /\ txs[n].applied
     /\ txs[n].tx.TransactionType = "Payment"
     /\ txs[n].tx.destination = classic_address(w)}

Terminated ==
  /\ pc \in {"done", "crashed"}
  /\ \A n \in 1..Len(txs) : txs[n].status # "inflight"

\* C19: when every call to the faucet and the ledger returns or raises,
\* every run ends, and no step stays inside submit_and_wait forever.
C19_Terminates == <>[]Terminated

C19_Witness ==
  /\ Terminated
  /\ Len(txs) = 3
  /\ \A n \in 1..3 : txs[n].returned # Unset

\* simulation_wallets.json has been written.
FileWritten == wallet_file # NoFile

\* The three settlement steps have returned and the three final balances
\* have been read, in the order owner, gc, subcontractor.
StepsAndBalancesDone ==
  /\ escrow_hash # Unset /\ gc_payment_hash # Unset /\ sub_payment_hash # Unset
  /\ Len(txs) = 3 /\ \A n \in 1..3 : txs[n].returned # Unset
  /\ Len(final_balances) = 3

\* C20: the wallet file is written at most once and only as the last step
\* of the run, after the three settlement steps and the three final
\* balance reads; once written it holds the address and the seed of exactly
\* the wallets owner, gc and subcontractor of this run.
C20_WalletFileWrittenLast ==
  /\ [](FileWritten =>
          /\ pc = "done"
          /\ StepsAndBalancesDone
          /\ wallets = Roles
          /\ DOMAIN wallet_file = Roles
          /\ \A w \in Roles :
               wallet_file[w] = [address |-> classic_address(w),
                                 seed |-> seed(w)])
  /\ [][wallet_file' # wallet_file => ~FileWritten /\ pc = "save"]_vars
  /\ [][FileWritten => UNCHANGED <<pc, console, flowVars>>]_vars

C20_Witness ==
  /\ FileWritten
  /\ pc = "done"
  /\ StepsAndBalancesDone
  /\ console[Len(console)].line = 270

====
